---- MODULE Spec2Model ----
(***************************************************************************)
(* State-machine model of the scp helper (helper.go) and of the SCP sink   *)
(* writer (scp.go).                                                        *)
(*                                                                         *)
(*   - newSession: the connection manager (lock, cached client, one        *)
(*     redial after a failed session creation);                            *)
(*   - Copy / copy: one transfer attempt: optional gzip pre-read, the      *)
(*     background writer goroutine, the blocking session.Run;              *)
(*   - TryCopy / MustCopy: the retry loops with their sleeps.              *)
(*                                                                         *)
(* Bytes are modelled by their ASCII codes.  The ssh transport (Dial,      *)
(* NewSession, StdinPipe, Run, writes to the pipe) is the environment: its *)
(* successes and failures are nondeterministic choices.                    *)
(***************************************************************************)
EXTENDS Integers, Sequences, FiniteSets, TLC

(* ------------------------------ bounds -------------------------------- *)
\* connections the environment lets the dialer establish in one run
MaxConns == 2
\* sessions the environment lets the connections open in one run
MaxSessions == 2
\* largest declared size argument
MaxSize == 2
\* largest length of the byte source
MaxLen == 2
\* the "trys" arguments of TryCopy that are enumerated: 0..ShortTrys and LongTrys
ShortTrys == 3
LongTrys == 12
\* attempts after which the (endless) MustCopy loop is no longer followed
MaxAttempts == 13
\* connections and sessions the environment lets through in the retry runs
RetryConns == 2
RetrySessions == 1
\* attempts followed in the runs that look at what a retry sends
ResendAttempts == 2
\* the largest rate limit given to SetLimitKB, in KB/s
MaxKB == 100

(* ------------------------- program constants -------------------------- *)
\* time.Second and time.Minute, in seconds
Second == 1
Minute == 60
\* os.ModePerm, 0777
ModePerm == 511

Callers == {"c1", "c2"}

\* filepath.Base(dstfile): the byte 'f'
BaseName == <<102>>

\* filepath.Dir(dstfile): "/d"
DirName == <<47, 100>>

\* the arguments given to SetLimitKB
LimitKBs == {-1, 0, 1, MaxKB}

(* ------------------------- pure helper functions ---------------------- *)
\* the byte source handed to Copy: len distinct bytes 'A', 'B', ...
Source(len) == [i \in 1..len |-> 64 + i]

RECURSIVE OctDigits(_)
OctDigits(n) == IF n < 8 THEN <<48 + n>> ELSE OctDigits(n \div 8) \o <<48 + (n % 8)>>

RECURSIVE DecDigits(_)
DecDigits(n) == IF n < 10 THEN <<48 + n>> ELSE DecDigits(n \div 10) \o <<48 + (n % 10)>>

\* fmt's %#o: octal digits with a leading '0' unless the first digit is one
FmtSharpOctal(n) ==
    LET d == OctDigits(n) IN IF d[1] = 48 THEN d ELSE <<48>> \o d

\* fmt.Fprintf(w, "C%#o %d %s\n", mode, size, fileName)
CtlLine(mode, sz, name) ==
    <<67>> \o FmtSharpOctal(mode) \o <<32>> \o DecDigits(sz) \o <<32>> \o name \o <<10>>

\* fmt.Fprint(w, "\x00")
Terminator == <<0>>

\* name = name + ".gz"
GzName(name) == name \o <<46, 103, 122>>

\* what gzip.Writer leaves in the buffer after Write(s) and Flush: the codec is
\* external; it is modelled as a two-byte magic header followed by the data,
\* so that the buffer's length differs from the data's.
GzipBytes(data) == <<31, 139>> \o data

\* fmt's %d
FmtInt(n) == IF n < 0 THEN <<45>> \o DecDigits(-n) ELSE DecDigits(n)

\* variant: the limit is passed on in KB/s, not converted to Kbit/s
LimitFlagsNoBits(kbs) == <<45, 108, 32>> \o FmtInt(kbs)

\* SetLimitKB: fmt.Sprintf("-l %d", kbs*8)
LimitFlags(kbs) == <<45, 108, 32>> \o FmtInt(kbs * 8)

\* copy: fmt.Sprintf("scp %s -t %s", flags, destination)
CmdLine(fl, destination) == <<115, 99, 112, 32>> \o fl \o <<32, 45, 116, 32>> \o destination

Take(s, n) == SubSeq(s, 1, IF n < Len(s) THEN n ELSE Len(s))
Drop(s, n) == SubSeq(s, n + 1, Len(s))

(* ----------------------------- retry logic ---------------------------- *)
\* TryCopy: if retryTimes > trys { return &ErrTimes{...} }
TryCopyExhausted(rt, n) == rt > n

\* TryCopy: else if retryTimes > 0 { time.Sleep(retryTimes * time.Second) }
TryCopyDelay(rt) == IF rt > 0 THEN rt * Second ELSE 0

\* variant: the ceiling taken one retry early (">=" for ">")
MustCopyDelayEarly(rt) ==
    IF rt >= 10 THEN Minute ELSE IF rt > 0 THEN rt * Second ELSE 0

\* MustCopy: if retryTimes > 10 { Sleep(Minute) } else if retryTimes > 0 {...}
MustCopyDelay(rt) ==
    IF rt > 10 THEN Minute ELSE IF rt > 0 THEN rt * Second ELSE 0

\* variant: the test inverted ("err != nil")
CopySucceededInverted(e) == e # "nil"

\* if err := s.Copy(r, size, dstfile); err == nil { return ... }
CopySucceeded(e) == e = "nil"

\* TryCopy's outer "var err error" after an attempt returned e: the attempt's
\* error is bound by ":=" to a new variable of the if statement, so the outer
\* one keeps its value.
OuterErrAfter(outer, e) == outer

(* ------------------------------- state -------------------------------- *)
VARIABLES
    \* scpHelperDelegate
    client,      \* s.client: 0 is nil, else the connection's id
    lock,        \* s.lock: "free" or the caller holding it
    gzip,        \* s.gzip
    flags,       \* s.flags
    limitSet,    \* SetLimitKB has been called
    limitKB,     \* the argument of the last SetLimitKB (0 before)
    \* the transport
    conns,       \* connection id -> "none" | "open" | "closed"
    sessions,    \* session id -> record (the session and its writer goroutine)
    crashed,     \* a goroutine panicked: the process is gone
    envFailed,   \* some Dial or NewSession has failed so far
    connLimit,   \* connections the environment lets through in this run
    sessLimit,   \* sessions the environment lets through in this run
    attemptLimit,\* attempts of MustCopy that are followed in this run
    \* per caller: arguments
    op, trys, size, srcLen,
    viaPath,     \* the operation is the path-based one (CopyPath, TryCopyPath, ...)
    fd,          \* the source file handle of a path-based operation
    rpos,        \* read position of the caller's io.Reader
    \* per caller: control
    pc,
    retryTimes,  \* the loops' retryTimes
    err,         \* TryCopy's outer "var err error"
    cerr,        \* what the last Copy returned
    outcomes,    \* per Copy call made so far: whether it returned nil
    sess,        \* Copy's session (0: none)
    csize,       \* Copy's size (replaced by the buffer's length under gzip)
    cbuf,        \* Copy's gzip input read so far
    nsLog,       \* transport events of the caller's current newSession call
    cached,      \* s.client was non-nil when the current newSession call began
    attempts,    \* calls of Copy made by the caller's loop
    sleeps,      \* the delay slept before each attempt, in order
    result       \* what the caller's operation returned

mgrVars   == <<client, lock, conns, envFailed>>
\* arguments and configuration, and the file handle, which no step of a
\* transfer touches
inputVars == <<gzip, flags, limitSet, limitKB, op, trys, size, srcLen, viaPath, fd,
               connLimit, sessLimit, attemptLimit>>
loopVars  == <<retryTimes, err, attempts, sleeps, result>>
copyVars  == <<sess, csize, cbuf>>
nsVars    == <<nsLog, cached>>
retVars   == <<cerr, outcomes>>
vars == <<client, lock, gzip, flags, limitSet, limitKB, conns, sessions, crashed, envFailed,
          connLimit, sessLimit, attemptLimit,
          op, trys, size, srcLen, viaPath, fd, rpos, pc, retryTimes, err, cerr, outcomes, sess,
          csize, cbuf, nsLog, cached, attempts, sleeps, result>>

NoSession ==
    [state |-> "none", conn |-> 0, owner |-> "c1", started |-> FALSE,
     piped |-> FALSE, pipe |-> <<>>, pclosed |-> FALSE,
     wpc |-> "none", wnil |-> FALSE, werr |-> FALSE, wsize |-> 0,
     wname |-> <<>>, wshared |-> TRUE, wbuf |-> <<>>, cmd |-> <<>>]

\* what is kept of a closed session whose Copy call is over: that it is closed
\* and, while its writer still runs, what that writer can still read (where it
\* stands, that the session was started, its private buffer); nothing of the
\* program reads the rest any more
Forgotten(r) ==
    IF r.wpc \in {"none", "done", "gone"}
    THEN [NoSession EXCEPT !.state = "closed", !.owner = r.owner, !.wpc = "gone"]
    ELSE [NoSession EXCEPT !.state = "closed", !.owner = r.owner, !.wpc = r.wpc,
                           !.started = r.started, !.wshared = r.wshared, !.wbuf = r.wbuf]

NoResult == [kind |-> "none", times |-> 0, err |-> "nil"]

StartPc(o) == IF o = "Copy" THEN "ns_lock" ELSE IF o = "none" THEN "idle" ELSE "loop"

InitState(ops, trySet, sizes, lens, gz, cl, sl, al, paths) ==
    /\ connLimit = cl
    /\ sessLimit = sl
    /\ attemptLimit = al
    /\ client = 0
    /\ lock = "free"
    /\ gzip \in gz
    /\ flags = <<>>
    /\ limitSet = FALSE
    /\ limitKB = 0
    /\ conns = [i \in 1..MaxConns |-> "none"]
    /\ sessions = [i \in 1..MaxSessions |-> NoSession]
    /\ crashed = FALSE
    /\ envFailed = FALSE
    /\ op \in ops
    /\ trys \in [Callers -> trySet \cup {0}]
    /\ \A c \in Callers : IF op[c] = "TryCopy" THEN trys[c] \in trySet ELSE trys[c] = 0
    /\ size \in [Callers -> sizes \cup {0}]
    /\ srcLen \in [Callers -> lens \cup {0}]
    /\ \A c \in Callers : IF op[c] = "none" THEN size[c] = 0 /\ srcLen[c] = 0
                                              ELSE size[c] \in sizes /\ srcLen[c] \in lens
    /\ viaPath \in [Callers -> paths \cup {FALSE}]
    /\ \A c \in Callers : IF op[c] = "none" THEN ~viaPath[c] ELSE viaPath[c] \in paths
    /\ fd = [c \in Callers |-> "none"]
    /\ rpos = [c \in Callers |-> 0]
    /\ pc = [c \in Callers |-> IF viaPath[c] THEN "open" ELSE StartPc(op[c])]
    /\ retryTimes = [c \in Callers |-> 0]
    /\ err = [c \in Callers |-> "nil"]
    /\ cerr = [c \in Callers |-> "nil"]
    /\ outcomes = [c \in Callers |-> <<>>]
    /\ sess = [c \in Callers |-> 0]
    /\ csize = [c \in Callers |-> 0]
    /\ cbuf = [c \in Callers |-> <<>>]
    /\ nsLog = [c \in Callers |-> <<>>]
    /\ cached = [c \in Callers |-> FALSE]
    /\ attempts = [c \in Callers |-> 0]
    /\ sleeps = [c \in Callers |-> <<>>]
    /\ result = [c \in Callers |-> NoResult]

\* callers that hand their own io.Reader to Copy, TryCopy or MustCopy
InitWith(ops, trySet, sizes, lens, gz, cl, sl, al) ==
    InitState(ops, trySet, sizes, lens, gz, cl, sl, al, {FALSE})

OneCaller(ops) == {f \in [Callers -> ops \cup {"none"}] : f["c1"] # "none" /\ f["c2"] = "none"}

\* one caller running Copy once, on any input
Init == InitWith(OneCaller({"Copy"}), {0}, 0..MaxSize, 0..MaxLen, BOOLEAN,
                 MaxConns, MaxSessions, 0)


(* ------------------------- connection manager ------------------------- *)
\* variant: no lock is taken
LockIgnored(l) == TRUE

\* s.lock.Lock(): blocks until the lock is free
LockFree(l) == l = "free"

\* if s.client == nil { ... Dial() ... }
NeedDial(cl) == cl = 0

\* variant: the client field is set although the dial failed
ClientAfterDialKept(ok, id) == id

\* s.client, err = s.dialer.Dial(): the new connection, or nil with the error
ClientAfterDial(ok, id) == IF ok THEN id ELSE 0

\* s.client.Close(); s.client = nil
ClientAfterSessFail(cl) == 0

\* variant: the client is dropped without being closed
ConnsAfterSessFailLeak(cs, cl) == cs

\* s.client.Close()
ConnsAfterSessFail(cs, cl) == [cs EXCEPT ![cl] = "closed"]

NextConn == Cardinality({i \in 1..MaxConns : conns[i] # "none"}) + 1
\* the calls of Dial that have succeeded so far
DialsDone == NextConn - 1

NextSess == Cardinality({i \in 1..MaxSessions : sessions[i].state # "none"}) + 1

SessUsable(s) ==
    /\ sessions[s].state = "open"
    /\ sessions[s].conn # 0
    /\ conns[sessions[s].conn] = "open"

\* newSession returns (nil, e) and Copy returns e: "if err != nil { return err }"
NsFail(c, e) ==
    /\ lock' = "free"
    /\ cerr' = [cerr EXCEPT ![c] = e]
    /\ outcomes' = [outcomes EXCEPT ![c] = Append(@, FALSE)]
    /\ pc' = [pc EXCEPT ![c] = "ret"]
    /\ UNCHANGED <<sessions, copyVars>>

\* newSession returns (sess, nil) on connection cl; Copy goes on with the session
NsOk(c, cl) ==
    /\ lock' = "free"
    /\ sessions' = [sessions EXCEPT ![NextSess] =
                      [NoSession EXCEPT !.state = "open", !.conn = cl, !.owner = c]]
    /\ sess' = [sess EXCEPT ![c] = NextSess]
    /\ csize' = [csize EXCEPT ![c] = size[c]]
    /\ cbuf' = [cbuf EXCEPT ![c] = <<>>]
    /\ pc' = [pc EXCEPT ![c] = IF gzip THEN "gz_read" ELSE "spawn"]
    /\ UNCHANGED retVars

\* s.lock.Lock(); defer s.lock.Unlock(); if s.client == nil
NsEnter(c) ==
    /\ ~crashed
    /\ pc[c] = "ns_lock"
    /\ LockFree(lock)
    /\ lock' = c
    /\ nsLog' = [nsLog EXCEPT ![c] = <<>>]
    /\ cached' = [cached EXCEPT ![c] = (client # 0)]
    /\ pc' = [pc EXCEPT ![c] = IF NeedDial(client) THEN "ns_dial1" ELSE "ns_sess1"]
    /\ UNCHANGED <<client, conns, envFailed, sessions, crashed, inputVars,
                   rpos, loopVars, retVars, copyVars>>

\* the Dial of either place: ok is the environment's answer
DialStep(c, ok, nextpc) ==
    /\ ok => NextConn <= connLimit
    /\ envFailed' = (envFailed \/ ~ok)
    /\ client' = ClientAfterDial(ok, NextConn)
    /\ conns' = IF ok THEN [conns EXCEPT ![NextConn] = "open"] ELSE conns
    /\ nsLog' = [nsLog EXCEPT ![c] = Append(@, IF ok THEN "dial_ok" ELSE "dial_fail")]
    /\ IF ok
       THEN /\ pc' = [pc EXCEPT ![c] = nextpc]
            /\ UNCHANGED <<lock, retVars, sessions, copyVars>>
       ELSE NsFail(c, "dial")
    /\ UNCHANGED <<crashed, inputVars, rpos, loopVars, cached>>

\* if s.client, err = s.dialer.Dial(); err != nil { return nil, err }    (first)
NsDial1(c) ==
    /\ ~crashed
    /\ pc[c] = "ns_dial1"
    /\ \E ok \in BOOLEAN : DialStep(c, ok, "ns_sess1")

\* variant: after a failed session creation the connection is kept and the
\* session is simply asked for again, without a redial
NsSess1NoRedial(c) ==
    /\ ~crashed
    /\ pc[c] = "ns_sess1"
    /\ \E ok \in BOOLEAN :
        /\ ok => NextSess <= sessLimit
        /\ envFailed' = (envFailed \/ ~ok)
        /\ nsLog' = [nsLog EXCEPT ![c] = Append(@, IF ok THEN "sess_ok" ELSE "sess_fail")]
        /\ IF ok
           THEN NsOk(c, client)
           ELSE /\ pc' = [pc EXCEPT ![c] = "ns_sess2"]
                /\ UNCHANGED <<lock, retVars, sessions, copyVars>>
    /\ UNCHANGED <<client, conns, crashed, inputVars, rpos, loopVars, cached>>

\* if sess, err := s.client.NewSession(); err != nil { Close; nil } else { return }
NsSess1(c) ==
    /\ ~crashed
    /\ pc[c] = "ns_sess1"
    /\ \E ok \in BOOLEAN :
        /\ ok => NextSess <= sessLimit
        /\ envFailed' = (envFailed \/ ~ok)
        /\ nsLog' = [nsLog EXCEPT ![c] = Append(@, IF ok THEN "sess_ok" ELSE "sess_fail")]
        /\ IF ok
           THEN /\ NsOk(c, client)
                /\ UNCHANGED <<client, conns>>
           ELSE /\ conns' = ConnsAfterSessFail(conns, client)
                /\ client' = ClientAfterSessFail(client)
                /\ pc' = [pc EXCEPT ![c] = "ns_dial2"]
                /\ UNCHANGED <<lock, retVars, sessions, copyVars>>
    /\ UNCHANGED <<crashed, inputVars, rpos, loopVars, cached>>

\* if s.client, err = s.dialer.Dial(); err != nil { return nil, err }    (redial)
NsDial2(c) ==
    /\ ~crashed
    /\ pc[c] = "ns_dial2"
    /\ \E ok \in BOOLEAN : DialStep(c, ok, "ns_sess2")

\* return s.client.NewSession()
NsSess2(c) ==
    /\ ~crashed
    /\ pc[c] = "ns_sess2"
    /\ \E ok \in BOOLEAN :
        /\ ok => NextSess <= sessLimit
        /\ envFailed' = (envFailed \/ ~ok)
        /\ nsLog' = [nsLog EXCEPT ![c] = Append(@, IF ok THEN "sess_ok" ELSE "sess_fail")]
        /\ IF ok THEN NsOk(c, client) ELSE NsFail(c, "session")
    /\ UNCHANGED <<client, conns, crashed, inputVars, rpos, loopVars, cached>>


(* ------------------------- one transfer attempt ----------------------- *)
\* variant: Copy leaves the closing to copy
HelperNoDeferClose(ss, s) == ss

\* Copy's "defer session.Close()"
HelperDeferClose(ss, s) == [ss EXCEPT ![s].state = "closed"]

\* copy's "defer session.Close()"
ScpDeferClose(ss, s) == [ss EXCEPT ![s].state = "closed"]

\* copy's result: "if err := session.Run(cmd); err != nil { return err }; return nil".
\* The writer goroutine's errors are dropped where they occur and do not reach it.
CopyResult(runErr, writerErr) == runErr

\* Copy returns e to its caller
CopyReturn(c, e) ==
    /\ cerr' = [cerr EXCEPT ![c] = e]
    /\ outcomes' = [outcomes EXCEPT ![c] = Append(@, e = "nil")]
    /\ pc' = [pc EXCEPT ![c] = "ret"]

\* gzip branch: "if n, err := r.Read(b); ... else { w.Write(b[0:n]) }"
GzReadData(c) ==
    /\ ~crashed
    /\ pc[c] = "gz_read"
    /\ rpos[c] < srcLen[c]
    /\ cbuf' = [cbuf EXCEPT ![c] = @ \o Drop(Source(srcLen[c]), rpos[c])]
    /\ rpos' = [rpos EXCEPT ![c] = srcLen[c]]
    /\ UNCHANGED <<mgrVars, sessions, crashed, inputVars, pc, loopVars, retVars, sess,
                   csize, nsVars>>

\* gzip branch: "err == io.EOF { break }", then w.Flush(); r = cb; size = cb.Len()
GzReadEOF(c) ==
    /\ ~crashed
    /\ pc[c] = "gz_read"
    /\ rpos[c] >= srcLen[c]
    /\ csize' = [csize EXCEPT ![c] = Len(GzipBytes(cbuf[c]))]
    /\ pc' = [pc EXCEPT ![c] = "spawn"]
    /\ UNCHANGED <<mgrVars, sessions, crashed, inputVars, rpos, loopVars, retVars, sess,
                   cbuf, nsVars>>

\* gzip branch: "else if err != nil { return err }" (the source fails to read)
GzReadErr(c) ==
    /\ ~crashed
    /\ pc[c] = "gz_read"
    /\ sessions' = HelperDeferClose(sessions, sess[c])
    /\ CopyReturn(c, "read")
    /\ UNCHANGED <<mgrVars, crashed, inputVars, rpos, loopVars, copyVars, nsVars>>

\* copy: "go func() { ... }()": the writer goroutine exists from here on
Spawn(c) ==
    /\ ~crashed
    /\ pc[c] = "spawn"
    /\ sessions' = [sessions EXCEPT ![sess[c]] =
                      [@ EXCEPT !.wpc = "pipe",
                                !.wsize = csize[c],
                                !.wname = IF gzip THEN GzName(BaseName) ELSE BaseName,
                                !.wshared = ~gzip,
                                !.wbuf = IF gzip THEN GzipBytes(cbuf[c]) ELSE <<>>]]
    /\ pc' = [pc EXCEPT ![c] = "run"]
    /\ UNCHANGED <<mgrVars, crashed, inputVars, rpos, loopVars, retVars, copyVars, nsVars>>

\* cmd := fmt.Sprintf(...); session.Run(cmd), first half: Start marks the
\* session started
RunStart(c) ==
    /\ ~crashed
    /\ pc[c] = "run"
    /\ sessions' = [sessions EXCEPT ![sess[c]].started = TRUE,
                                    ![sess[c]].cmd = CmdLine(flags, DirName)]
    /\ pc' = [pc EXCEPT ![c] = "wait"]
    /\ UNCHANGED <<mgrVars, crashed, inputVars, rpos, loopVars, retVars, copyVars, nsVars>>

\* session.Run(cmd) returns nil: the remote command has seen the end of its input
\* (the pipe was closed, or the session had no pipe) and exited with status 0
RunOk(c) ==
    /\ ~crashed
    /\ pc[c] = "wait"
    /\ SessUsable(sess[c])
    /\ sessions[sess[c]].pclosed \/ ~sessions[sess[c]].piped
    /\ sessions' = HelperDeferClose(ScpDeferClose(sessions, sess[c]), sess[c])
    /\ CopyReturn(c, CopyResult("nil", sessions[sess[c]].werr))
    /\ UNCHANGED <<mgrVars, crashed, inputVars, rpos, loopVars, copyVars, nsVars>>

\* session.Run(cmd) returns an error (remote failure or transport error)
RunFail(c) ==
    /\ ~crashed
    /\ pc[c] = "wait"
    /\ sessions' = HelperDeferClose(ScpDeferClose(sessions, sess[c]), sess[c])
    /\ CopyReturn(c, CopyResult("run", sessions[sess[c]].werr))
    /\ UNCHANGED <<mgrVars, crashed, inputVars, rpos, loopVars, copyVars, nsVars>>

(* ------------------------- the writer goroutine ----------------------- *)
\* what the writer's reader still holds
Avail(s) ==
    IF sessions[s].wshared
    THEN Drop(Source(srcLen[sessions[s].owner]), rpos[sessions[s].owner])
    ELSE sessions[s].wbuf

\* a write to the pipe succeeds on a live session with the pipe open, and fails
\* once the session or its connection has been closed
CanWrite(s) == SessUsable(s) /\ ~sessions[s].pclosed

\* w, _ := session.StdinPipe(); defer w.Close()
\* StdinPipe fails once the session is started; w is then nil and "defer w.Close()"
\* dereferences it: the goroutine panics and the process dies.
WStdinPipe(s) ==
    /\ ~crashed
    /\ sessions[s].wpc = "pipe"
    /\ IF sessions[s].started
       THEN /\ sessions' = [sessions EXCEPT ![s].wpc = "panic", ![s].wnil = TRUE,
                                            ![s].werr = TRUE]
            /\ crashed' = TRUE
       ELSE /\ sessions' = [sessions EXCEPT ![s].wpc = "ctl", ![s].piped = TRUE]
            /\ UNCHANGED crashed
    /\ UNCHANGED <<mgrVars, inputVars, rpos, pc, loopVars, retVars, copyVars, nsVars>>

\* fmt.Fprintf(w, "C%#o %d %s\n", mode, size, fileName); the error is dropped
WCtl(s) ==
    /\ ~crashed
    /\ sessions[s].wpc = "ctl"
    /\ LET ok == CanWrite(s) IN
        sessions' = [sessions EXCEPT
              ![s].wpc = "copy",
              ![s].werr = (@ \/ ~ok),
              ![s].pipe = IF ok THEN @ \o CtlLine(ModePerm, sessions[s].wsize, sessions[s].wname)
                          ELSE @]
    /\ UNCHANGED <<mgrVars, crashed, inputVars, rpos, pc, loopVars, retVars, copyVars, nsVars>>

\* io.Copy(w, contents): copies until the reader's EOF (ok), or stops at the first
\* read or write error after k bytes; the error is dropped.  A write to a dead
\* pipe fails after the first chunk was read.
WCopy(s) ==
    /\ ~crashed
    /\ sessions[s].wpc = "copy"
    /\ LET av == Avail(s)
           o == sessions[s].owner
       IN \E k \in 0..Len(av), ok \in BOOLEAN :
            /\ ok => k = Len(av)
            /\ (ok /\ k > 0) => CanWrite(s)
            /\ (~CanWrite(s) /\ ~ok) => k = Len(av)
            /\ sessions' = [sessions EXCEPT
                  ![s].wpc = "nul",
                  ![s].werr = (@ \/ ~ok),
                  ![s].pipe = IF CanWrite(s) THEN @ \o Take(av, k) ELSE @,
                  ![s].wbuf = IF sessions[s].wshared THEN @ ELSE Drop(av, k)]
            /\ rpos' = IF sessions[s].wshared THEN [rpos EXCEPT ![o] = @ + k] ELSE rpos
    /\ UNCHANGED <<mgrVars, crashed, inputVars, pc, loopVars, retVars, copyVars, nsVars>>

\* fmt.Fprint(w, "\x00"); the error is dropped
WNul(s) ==
    /\ ~crashed
    /\ sessions[s].wpc = "nul"
    /\ LET ok == CanWrite(s) IN
        sessions' = [sessions EXCEPT
              ![s].wpc = "close",
              ![s].werr = (@ \/ ~ok),
              ![s].pipe = IF ok THEN @ \o Terminator ELSE @]
    /\ UNCHANGED <<mgrVars, crashed, inputVars, rpos, pc, loopVars, retVars, copyVars, nsVars>>

\* the deferred w.Close()
WClose(s) ==
    /\ ~crashed
    /\ sessions[s].wpc = "close"
    /\ sessions' = [sessions EXCEPT ![s] =
          IF @.state = "closed" /\ sess[@.owner] # s
          THEN Forgotten(@)
          ELSE [@ EXCEPT !.wpc = "done", !.pclosed = TRUE]]
    /\ UNCHANGED <<mgrVars, crashed, inputVars, rpos, pc, loopVars, retVars, copyVars, nsVars>>

(* ---------------------------- configuration --------------------------- *)
\* SetLimitKB(kbs).  s.flags is written without the lock, so the helper is
\* configured before its transfers begin: no caller has started yet.
SetLimitKB(kbs) ==
    /\ ~crashed
    /\ \A c \in Callers : pc[c] = StartPc(op[c])
    /\ flags' = LimitFlags(kbs)
    /\ limitSet' = TRUE
    /\ limitKB' = kbs
    /\ UNCHANGED <<mgrVars, sessions, crashed, gzip, op, trys, size, srcLen, viaPath, fd,
                   connLimit, sessLimit, attemptLimit, rpos, pc, loopVars, retVars,
                   copyVars, nsVars>>

(* ------------------------ path-based operations ---------------------- *)
\* what CopyPath and TryCopyPath return, and what MustCopyPath panics with,
\* when openFile fails with e
OpenFileFailed(c, e) ==
    [kind |-> IF op[c] = "MustCopy" THEN "panic" ELSE "error", times |-> 0, err |-> e]

\* openFile: fd, err := os.Open(filename); if err != nil { return nil, 0, err }
OpenFile(c) ==
    /\ ~crashed
    /\ pc[c] = "open"
    /\ \E ok \in BOOLEAN :
          IF ok
          THEN /\ fd' = [fd EXCEPT ![c] = "open"]
               /\ pc' = [pc EXCEPT ![c] = "stat"]
               /\ UNCHANGED result
          ELSE /\ result' = [result EXCEPT ![c] = OpenFileFailed(c, "open")]
               /\ pc' = [pc EXCEPT ![c] = "done"]
               /\ UNCHANGED fd
    /\ UNCHANGED <<mgrVars, sessions, crashed, gzip, flags, limitSet, limitKB, op, trys,
                   size, srcLen, viaPath, connLimit, sessLimit, attemptLimit, rpos,
                   retryTimes, err, attempts, sleeps, retVars, copyVars, nsVars>>

\* openFile: stat, err := fd.Stat(); if err != nil { return nil, 0, err };
\* return fd, stat.Size(), nil; then the call of Copy, TryCopy or MustCopy on fd.
\* The handle is left as it is on both paths.
StatFile(c) ==
    /\ ~crashed
    /\ pc[c] = "stat"
    /\ \E ok \in BOOLEAN :
          IF ok
          THEN /\ pc' = [pc EXCEPT ![c] = StartPc(op[c])]
               /\ UNCHANGED result
          ELSE /\ result' = [result EXCEPT ![c] = OpenFileFailed(c, "stat")]
               /\ pc' = [pc EXCEPT ![c] = "done"]
    /\ UNCHANGED <<mgrVars, sessions, crashed, inputVars, rpos,
                   retryTimes, err, attempts, sleeps, retVars, copyVars, nsVars>>

(* ----------------------------- retry loops ---------------------------- *)
\* the loop goes round: the if statement's err and the frame of the Copy call
\* that returned are gone
LoopAgain(c) ==
    /\ pc' = [pc EXCEPT ![c] = "loop"]
    /\ sessions' = [s \in 1..MaxSessions |->
          IF sessions[s].owner = c /\ sessions[s].state = "closed"
          THEN Forgotten(sessions[s]) ELSE sessions[s]]
    /\ cerr' = [cerr EXCEPT ![c] = "nil"]
    /\ sess' = [sess EXCEPT ![c] = 0]
    /\ csize' = [csize EXCEPT ![c] = 0]
    /\ cbuf' = [cbuf EXCEPT ![c] = <<>>]
    /\ nsLog' = [nsLog EXCEPT ![c] = <<>>]
    /\ cached' = [cached EXCEPT ![c] = FALSE]
    /\ UNCHANGED <<outcomes, result>>

\* the public Copy has returned to the caller
CopyDone(c) ==
    /\ ~crashed
    /\ pc[c] = "ret"
    /\ op[c] = "Copy"
    /\ result' = [result EXCEPT ![c] =
          [kind |-> IF cerr[c] = "nil" THEN "nil" ELSE "error", times |-> 0, err |-> cerr[c]]]
    /\ pc' = [pc EXCEPT ![c] = "done"]
    /\ UNCHANGED <<mgrVars, sessions, crashed, inputVars, rpos, retryTimes, err,
                   attempts, sleeps, retVars, copyVars, nsVars>>

\* one turn of a loop up to the call of Copy: sleep delay, retryTimes++, Copy
Attempt(c, delay) ==
    /\ sleeps' = [sleeps EXCEPT ![c] = Append(@, delay)]
    /\ retryTimes' = [retryTimes EXCEPT ![c] = @ + 1]
    /\ attempts' = [attempts EXCEPT ![c] = @ + 1]
    /\ pc' = [pc EXCEPT ![c] = "ns_lock"]
    /\ UNCHANGED result

\* TryCopy: the head of the for loop
TryCopyLoop(c) ==
    /\ ~crashed
    /\ pc[c] = "loop"
    /\ op[c] = "TryCopy"
    /\ IF TryCopyExhausted(retryTimes[c], trys[c])
       THEN /\ result' = [result EXCEPT ![c] =
                  [kind |-> "ErrTimes", times |-> retryTimes[c], err |-> err[c]]]
            /\ pc' = [pc EXCEPT ![c] = "done"]
            /\ UNCHANGED <<retryTimes, attempts, sleeps>>
       ELSE Attempt(c, TryCopyDelay(retryTimes[c]))
    /\ UNCHANGED <<mgrVars, sessions, crashed, inputVars, rpos, err, retVars, copyVars, nsVars>>

\* TryCopy: "if err := s.Copy(...); err == nil { return nil }"
TryCopyCheck(c) ==
    /\ ~crashed
    /\ pc[c] = "ret"
    /\ op[c] = "TryCopy"
    /\ IF CopySucceeded(cerr[c])
       THEN /\ result' = [result EXCEPT ![c] = [kind |-> "nil", times |-> 0, err |-> "nil"]]
            /\ pc' = [pc EXCEPT ![c] = "done"]
            /\ UNCHANGED <<err, retVars, copyVars, nsVars, sessions>>
       ELSE /\ err' = [err EXCEPT ![c] = OuterErrAfter(@, cerr[c])]
            /\ LoopAgain(c)
    /\ UNCHANGED <<mgrVars, crashed, inputVars, rpos, retryTimes, attempts, sleeps>>

\* MustCopy: the head of the for loop (followed for MaxAttempts attempts)
MustCopyLoop(c) ==
    /\ ~crashed
    /\ pc[c] = "loop"
    /\ op[c] = "MustCopy"
    /\ retryTimes[c] < attemptLimit
    /\ Attempt(c, MustCopyDelay(retryTimes[c]))
    /\ UNCHANGED <<mgrVars, sessions, crashed, inputVars, rpos, err, retVars, copyVars, nsVars>>

\* MustCopy: "if err := s.Copy(...); err == nil { return }"
MustCopyCheck(c) ==
    /\ ~crashed
    /\ pc[c] = "ret"
    /\ op[c] = "MustCopy"
    /\ IF CopySucceeded(cerr[c])
       THEN /\ result' = [result EXCEPT ![c] = [kind |-> "void", times |-> 0, err |-> "nil"]]
            /\ pc' = [pc EXCEPT ![c] = "done"]
            /\ UNCHANGED <<retVars, copyVars, nsVars, sessions>>
       ELSE LoopAgain(c)
    /\ UNCHANGED <<mgrVars, crashed, inputVars, rpos, retryTimes, err, attempts,
                   sleeps>>

(* --------------------------- specifications --------------------------- *)
NewSessionStep(c) == NsEnter(c) \/ NsDial1(c) \/ NsSess1(c) \/ NsDial2(c) \/ NsSess2(c)

CopyStep(c) ==
    \/ NewSessionStep(c)
    \/ GzReadData(c) \/ GzReadEOF(c) \/ GzReadErr(c)
    \/ Spawn(c) \/ RunStart(c) \/ RunOk(c) \/ RunFail(c)

WriterStep(s) == WStdinPipe(s) \/ WCtl(s) \/ WCopy(s) \/ WNul(s) \/ WClose(s)

RetryStep(c) == TryCopyLoop(c) \/ TryCopyCheck(c) \/ MustCopyLoop(c) \/ MustCopyCheck(c)

\* the steps of callers that call Copy directly
Next ==
    \/ \E c \in Callers : CopyStep(c) \/ CopyDone(c)
    \/ \E s \in 1..MaxSessions : WriterStep(s)

\* one caller running Copy once, on any input
Spec == Init /\ [][Next]_vars

\* two callers running Copy concurrently on one helper
InitConc == InitWith({[c \in Callers |-> "Copy"]}, {0}, {1}, {1}, BOOLEAN,
                     MaxConns, MaxSessions, 0)

SpecConc == InitConc /\ [][Next]_vars

\* one caller running TryCopy or MustCopy
InitRetry == InitWith(OneCaller({"TryCopy", "MustCopy"}), (0..ShortTrys) \cup {LongTrys},
                      {1}, {1}, BOOLEAN, RetryConns, RetrySessions, MaxAttempts)

\* the steps of a caller inside TryCopy or MustCopy
NextRetry ==
    \/ \E c \in Callers : CopyStep(c) \/ RetryStep(c)
    \/ \E s \in 1..MaxSessions : WriterStep(s)

SpecRetry == InitRetry /\ [][NextRetry]_vars

(* ------------------------------- claims ------------------------------- *)
IsSessEvent(e) == e \in {"sess_ok", "sess_fail"}
SessEvents(log) == SelectSeq(log, IsSessEvent)
InNewSession == {"ns_dial1", "ns_sess1", "ns_dial2", "ns_sess2"}
InCopyBody == {"gz_read", "spawn", "run", "wait"}
AfterNewSession == {"gz_read", "spawn"}

\* C1 (as claimed): a TryCopy(r, size, dst, n), n >= 1, whose attempts all fail
\* makes exactly n attempts and returns an ErrTimes whose count is n.
C1_ExhaustedAfterNAttempts ==
    \A c \in Callers :
        (op[c] = "TryCopy" /\ trys[c] >= 1 /\ result[c].kind = "ErrTimes")
            => (attempts[c] = trys[c] /\ result[c].times = trys[c])

\* C2: in TryCopy, if the first k-1 attempts fail and the k-th succeeds, k <= n,
\* then exactly k attempts are made, none follows the success, and TryCopy
\* returns nil.
C2_StopsAtFirstSuccess ==
    \A c \in Callers : op[c] = "TryCopy" =>
        \A k \in 1..Len(outcomes[c]) :
            (k <= trys[c] /\ outcomes[c][k] /\ \A j \in 1..(k-1) : ~outcomes[c][j])
                => /\ attempts[c] = k
                   /\ Len(outcomes[c]) = k
                   /\ pc[c] \in {"ret", "done"}
                   /\ pc[c] = "done" => result[c].kind = "nil"

\* C2 witness: a TryCopy with n = 3 that failed twice and then succeeded has
\* returned nil after 3 attempts.
C2_Witness ==
    \E c \in Callers :
        /\ op[c] = "TryCopy" /\ trys[c] = 3
        /\ outcomes[c] = <<FALSE, FALSE, TRUE>>
        /\ pc[c] = "done" /\ result[c].kind = "nil" /\ attempts[c] = 3

\* C3 (as claimed): the ErrTimes TryCopy returns when it gives up carries the
\* error of the last failed attempt, never an absent one.
C3_ExhaustedCarriesLastError ==
    \A c \in Callers :
        (op[c] = "TryCopy" /\ result[c].kind = "ErrTimes" /\ attempts[c] >= 1)
            => result[c].err # "nil"

\* C4: a newSession entered with a cached connection, whose session creation
\* fails once and whose redial and second session creation succeed, returns a
\* usable session with no error after exactly one dial, and the redialed
\* connection is the cached one.
C4_TransparentRedial ==
    \A c \in Callers :
        (/\ pc[c] \in AfterNewSession
         /\ cached[c]
         /\ SessEvents(nsLog[c]) = <<"sess_fail", "sess_ok">>)
            => /\ nsLog[c] = <<"sess_fail", "dial_ok", "sess_ok">>
               /\ sess[c] # 0
               /\ SessUsable(sess[c])
               /\ client # 0
               /\ client = sessions[sess[c]].conn
               /\ conns[client] = "open"

\* C4 witness: such a call has just returned its session.
C4_Witness ==
    \E c \in Callers :
        /\ pc[c] \in AfterNewSession
        /\ cached[c]
        /\ nsLog[c] = <<"sess_fail", "dial_ok", "sess_ok">>
        /\ SessUsable(sess[c])

\* C5 (as claimed): when session creation fails on the cached connection and on
\* the redialed one, newSession returns the second error and leaves no
\* connection cached.
C5_DoubleFailureClearsClient ==
    \A c \in Callers :
        (/\ pc[c] = "ret"
         /\ cached[c]
         /\ nsLog[c] = <<"sess_fail", "dial_ok", "sess_fail">>)
            => (cerr[c] = "session" /\ client = 0)

\* C6: the bodies of concurrent newSession calls exclude each other, and while
\* every dial and session creation succeeds the callers together dial exactly
\* once.
C6_NewSessionExclusive ==
    /\ Cardinality({c \in Callers : pc[c] \in InNewSession}) <= 1
    /\ \A c \in Callers : pc[c] \in InNewSession => lock = c
    /\ ~envFailed => DialsDone <= 1
    /\ (~envFailed /\ \A c \in Callers : pc[c] \notin InNewSession \cup {"ns_lock"})
            => DialsDone = 1

\* C6 witness: one caller is inside newSession while the other waits for the
\* lock, no connection being cached yet.
C6_Witness ==
    /\ pc["c1"] = "ns_dial1"
    /\ pc["c2"] = "ns_lock"
    /\ client = 0

\* C7: whenever a caller is not inside the body of Copy, every session its
\* attempts obtained is closed: each attempt closes its session on every exit
\* path.
C7_SessionClosedOnReturn ==
    \A s \in 1..MaxSessions :
        sessions[s].state = "open"
            => (pc[sessions[s].owner] \in InCopyBody /\ sess[sessions[s].owner] = s)

\* C7 witness: an attempt has returned the error of reading its source, and its
\* session is closed.
C7_Witness ==
    \E c \in Callers :
        /\ pc[c] = "ret"
        /\ cerr[c] = "read"
        /\ sess[c] # 0
        /\ sessions[sess[c]].state = "closed"

\* C8 (as claimed): an attempt whose writer task met an I/O error returns an
\* error, also when the remote command reported success.
C8_WriterErrorSurfaces ==
    \A c \in Callers :
        (/\ pc[c] \in {"ret", "done"}
         /\ sess[c] # 0
         /\ sessions[sess[c]].wpc = "done"
         /\ sessions[sess[c]].werr)
            => cerr[c] # "nil"

\* the bytes the writer of session s was given to send
Contents(s) ==
    IF sessions[s].wshared
    THEN Source(srcLen[sessions[s].owner])
    ELSE GzipBytes(cbuf[sessions[s].owner])

\* C9 (as claimed): a writer that ran to its end without error has written the
\* control line, then exactly the declared size of payload bytes from its
\* contents, then one NUL, and closed the pipe.
C9_WriterStream ==
    \A s \in 1..MaxSessions :
        (sessions[s].wpc = "done" /\ ~sessions[s].werr /\ op[sessions[s].owner] = "Copy")
            => /\ sessions[s].pclosed
               /\ Len(Contents(s)) >= sessions[s].wsize
               /\ sessions[s].pipe =
                    CtlLine(ModePerm, sessions[s].wsize, sessions[s].wname)
                        \o Take(Contents(s), sessions[s].wsize) \o <<0>>

\* the delay claimed for attempt k
ClaimedDelay(k) == IF k = 1 THEN 0 ELSE IF k <= 10 THEN k * Second ELSE Minute

\* C10 (as claimed): in both loops the delay before attempt k is none for k = 1,
\* k seconds for 2 <= k <= 10, one minute beyond.
C10_DelayAsClaimed ==
    \A c \in Callers : \A k \in 1..Len(sleeps[c]) : sleeps[c][k] = ClaimedDelay(k)

\* C10 (amended): the delay before attempt k is none for k = 1; in MustCopy it
\* is k-1 seconds for 2 <= k <= 11 and one minute for k > 11; in TryCopy it is
\* k-1 seconds for every k >= 2.
C10_DelaySchedule ==
    \A c \in Callers : \A k \in 1..Len(sleeps[c]) :
        sleeps[c][k] =
            IF k = 1 THEN 0
            ELSE IF op[c] = "MustCopy" /\ k > 11 THEN 60
            ELSE k - 1

\* C10 witness: MustCopy has slept the minute before its 12th attempt, after
\* 10 seconds before the 11th.
C10_Witness ==
    \E c \in Callers :
        /\ op[c] = "MustCopy"
        /\ Len(sleeps[c]) >= 12
        /\ sleeps[c][11] = 10
        /\ sleeps[c][12] = 60

(* ---------------------- claims on the retry loops --------------------- *)
\* Every call the loops make returns in the end (the transport has timeouts),
\* and the Go scheduler runs every goroutine that can run: each caller and each
\* writer goroutine takes its next step if that step stays possible.
SpecRetryFair ==
    /\ SpecRetry
    /\ \A c \in Callers : WF_vars(CopyStep(c) \/ RetryStep(c))
    /\ \A s \in 1..MaxSessions : WF_vars(WriterStep(s))

SomeSucceeded(c) == \E k \in 1..Len(outcomes[c]) : outcomes[c][k]

\* MustCopy has returned only after a first successful attempt, its last one
MustCopyReturnedOnFirstSuccess(c) ==
    (op[c] = "MustCopy" /\ pc[c] = "done")
        => /\ Len(outcomes[c]) >= 1
           /\ outcomes[c][Len(outcomes[c])]
           /\ \A j \in 1..(Len(outcomes[c]) - 1) : ~outcomes[c][j]
           /\ attempts[c] = Len(outcomes[c])

\* C11 (as claimed): MustCopy returns only after, and right after, the first
\* successful attempt; after a failed attempt it goes on to a further attempt;
\* and once an attempt has succeeded MustCopy eventually returns.
C11_MustCopyReturnsOnSuccess ==
    /\ [](\A c \in Callers : MustCopyReturnedOnFirstSuccess(c))
    /\ \A c \in Callers :
          (op[c] = "MustCopy" /\ pc[c] = "ret" /\ cerr[c] # "nil"
              /\ retryTimes[c] < attemptLimit) ~> (pc[c] = "ns_lock")
    /\ \A c \in Callers :
          (op[c] = "MustCopy" /\ SomeSucceeded(c)) ~> (pc[c] = "done")

\* the positions of a caller inside an attempt (a call of Copy)
InAttempt == {"ns_lock", "ns_dial1", "ns_sess1", "ns_dial2", "ns_sess2",
              "gz_read", "spawn", "run", "wait"}

\* the positions of a writer goroutine that has not ended
WriterRunning == {"pipe", "ctl", "copy", "nul", "close"}

\* C12 (as claimed): while an attempt of MustCopy or TryCopy is under way, no
\* writer goroutine of an earlier attempt of the same call is still running.
C12_AttemptsSequential ==
    \A c \in Callers :
        (op[c] \in {"MustCopy", "TryCopy"} /\ pc[c] \in InAttempt)
            => \A s \in 1..MaxSessions :
                  (sessions[s].owner = c /\ s # sess[c])
                      => sessions[s].wpc \notin WriterRunning

(* --------------------- claims on the remote command ------------------- *)
\* a helper that is configured, then runs Copy once
NextCmd ==
    \/ Next
    \/ \E kbs \in LimitKBs : SetLimitKB(kbs)

SpecCmd == Init /\ [][NextCmd]_vars

\* the flags the configuration stands for
ConfiguredFlags == IF limitSet THEN <<45, 108, 32>> \o FmtInt(8 * limitKB) ELSE <<>>

\* the command as claimed: no blank for absent flags
ClaimedCmd(fl, dir) ==
    <<115, 99, 112>> \o (IF fl = <<>> THEN <<>> ELSE <<32>> \o fl) \o <<32, 45, 116, 32>> \o dir

\* C13 (as claimed): the command a started session runs is "scp", then " " and
\* the flags only if there are flags, then " -t " and the directory; the flags
\* are "-l <8*kb>" after SetLimitKB(kb) and empty otherwise.
C13_CommandAsClaimed ==
    \A s \in 1..MaxSessions :
        (sessions[s].state = "open" /\ sessions[s].started)
            => sessions[s].cmd = ClaimedCmd(ConfiguredFlags, DirName)

\* C13 (amended): the command is "scp " + flags + " -t " + directory, the blank
\* after "scp" being there also when the flags are empty.
C13_RemoteCommand ==
    \A s \in 1..MaxSessions :
        (sessions[s].state = "open" /\ sessions[s].started)
            => sessions[s].cmd =
                 <<115, 99, 112, 32>> \o ConfiguredFlags \o <<32, 45, 116, 32>> \o DirName

\* C13 witness: after SetLimitKB(MaxKB) a session runs "scp -l <8*MaxKB> -t /d"
C13_Witness ==
    \E s \in 1..MaxSessions :
        /\ sessions[s].state = "open" /\ sessions[s].started
        /\ limitSet /\ limitKB = MaxKB
        /\ sessions[s].cmd = <<115, 99, 112, 32, 45, 108, 32>> \o DecDigits(8 * MaxKB)
                                \o <<32, 45, 116, 32, 47, 100>>

(* ------------------- claims on the connection manager ----------------- *)
LiveConns == {i \in 1..MaxConns : conns[i] = "open"}

\* C14: at most one connection the manager dialed is unclosed at any time, and
\* an unclosed one is the cached client: a connection is closed before its
\* replacement is dialed.
C14_OneLiveConnection ==
    /\ Cardinality(LiveConns) <= 1
    /\ \A i \in LiveConns : client = i

\* C14 witness: a second connection has been dialed and is cached, the first
\* one is closed.
C14_Witness ==
    /\ conns[1] = "closed"
    /\ conns[2] = "open"
    /\ client = 2

\* C15 (as claimed): a session handed to a caller, and not yet closed by that
\* caller, is usable: no other caller's newSession has closed its connection.
C15_SessionStaysUsable ==
    \A c \in Callers :
        (pc[c] \in InCopyBody /\ sess[c] # 0 /\ sessions[sess[c]].state = "open")
            => conns[sessions[sess[c]].conn] = "open"

(* ------------------ claims on the writer of one attempt --------------- *)
\* C16 (as claimed): when a session is closed, and when its attempt has
\* returned, the writer goroutine started for it has ended.
C16_WriterJoined ==
    /\ \A s \in 1..MaxSessions :
          sessions[s].state = "closed" => sessions[s].wpc \notin WriterRunning
    /\ \A c \in Callers :
          (pc[c] \in {"ret", "done"} /\ sess[c] # 0)
              => sessions[sess[c]].wpc \notin WriterRunning

\* C17: a Copy whose newSession found no cached connection and whose dial
\* failed has returned the dial error after that one transport call: no
\* session creation, no second dial, no session, no writer, no remote command,
\* and no connection is cached.
C17_DialFailurePropagates ==
    \A c \in Callers :
        (/\ pc[c] \in {"ret", "done"}
         /\ ~cached[c]
         /\ Len(nsLog[c]) >= 1
         /\ nsLog[c][1] = "dial_fail")
            => /\ nsLog[c] = <<"dial_fail">>
               /\ cerr[c] = "dial"
               /\ outcomes[c] = <<FALSE>>
               /\ sess[c] = 0
               /\ client = 0
               /\ lock = "free"
               /\ \A s \in 1..MaxSessions :
                     sessions[s].owner = c
                         => (sessions[s].state = "none" /\ sessions[s].wpc = "none"
                             /\ ~sessions[s].started /\ sessions[s].cmd = <<>>)

\* C17 witness: Copy has returned the error of the failed first dial.
C17_Witness ==
    \E c \in Callers :
        /\ pc[c] = "done"
        /\ nsLog[c] = <<"dial_fail">>
        /\ result[c].kind = "error"
        /\ result[c].err = "dial"

\* C18 (as claimed): the remote command of a session is started only after the
\* writer goroutine has obtained the session's input pipe, so the writer never
\* holds a nil pipe.
C18_PipeBeforeStart ==
    \A s \in 1..MaxSessions :
        /\ (sessions[s].started /\ sessions[s].wpc # "none") => sessions[s].piped
        /\ ~sessions[s].wnil

(* ------------------ claims on what a retry sends ---------------------- *)
\* one caller running TryCopy or MustCopy on a one-byte source of declared
\* size one, with sessions enough for every attempt
InitResend == InitWith(OneCaller({"TryCopy", "MustCopy"}), {ResendAttempts - 1}, {1}, {1},
                       BOOLEAN, MaxConns, MaxSessions, ResendAttempts)

SpecResend == InitResend /\ [][NextRetry]_vars

\* the payload the first attempt of caller c sends when nothing fails
FirstPayload(c) ==
    IF gzip THEN GzipBytes(Source(srcLen[c])) ELSE Take(Source(srcLen[c]), size[c])

\* C19 (as claimed): in MustCopy and TryCopy the writer of every attempt that
\* ran to its end without error has sent the control line, a payload of
\* exactly the declared size that is the payload of the first attempt, and
\* the terminator.
C19_SamePayloadEachAttempt ==
    \A s \in 1..MaxSessions :
        (/\ sessions[s].wpc = "done"
         /\ ~sessions[s].werr
         /\ op[sessions[s].owner] \in {"MustCopy", "TryCopy"})
            => /\ Len(FirstPayload(sessions[s].owner)) = sessions[s].wsize
               /\ sessions[s].pipe =
                     CtlLine(ModePerm, sessions[s].wsize, sessions[s].wname)
                         \o FirstPayload(sessions[s].owner) \o <<0>>

(* ------------------ claims on the path-based operations --------------- *)
\* one caller running CopyPath, TryCopyPath or MustCopyPath; the size handed
\* on is stat.Size(), the length of the file
InitPath ==
    /\ InitState(OneCaller({"Copy", "TryCopy", "MustCopy"}), 0..(ResendAttempts - 1),
                 0..MaxLen, 0..MaxLen, BOOLEAN, MaxConns, MaxSessions, ResendAttempts, {TRUE})
    /\ size = srcLen

NextPath ==
    \/ \E c \in Callers : OpenFile(c) \/ StatFile(c)
    \/ \E c \in Callers : CopyStep(c) \/ CopyDone(c) \/ RetryStep(c)
    \/ \E s \in 1..MaxSessions : WriterStep(s)

SpecPath == InitPath /\ [][NextPath]_vars

OpenHandles == {c \in Callers : fd[c] = "open"}

\* C20 (as claimed): when a path-based operation has returned, the file
\* handle it opened is closed; no handle is open while no such operation is
\* in progress.
C20_SourceHandleClosed ==
    /\ \A c \in Callers : (viaPath[c] /\ pc[c] = "done") => fd[c] # "open"
    /\ (\A c \in Callers : pc[c] \in {"idle", "done"}) => OpenHandles = {}

====
